---- MODULE Spec2Model ----
(***************************************************************************)
(* Model of the two DataFrame-to-SQL exporters of the repository:          *)
(*   src/Python/python_to_mysql.py  (to_sql, MySQL through mysql.connector)*)
(*   src/Python/python_to_sql.py    (to_sql, SQL Server through pyodbc)    *)
(*                                                                         *)
(* In python_to_sql.py the statements that follow the docstring of to_sql   *)
(* stand at column 0; the model runs them as the statement sequence they   *)
(* are, with the names of the parameter list (df, column_dat_type, ...)    *)
(* bound, which is the only way they run to the end.                       *)
(*                                                                         *)
(* Two further functions are modelled, each under its own specification:   *)
(*   src/Python/date_manipulations.py  (last_sunday)      SpecDates        *)
(*   src/Python/model_objects.py       (model_results)    SpecResults      *)
(*                                                                         *)
(* Text is a sequence of one-character strings, so that len(), "+", join   *)
(* and split are computed on characters.  An integer is a sign and a       *)
(* sequence of decimal digits, so that the 64-bit range of a pandas int64  *)
(* column is representable and str() is a real conversion.                 *)
(***************************************************************************)
EXTENDS Integers, Sequences, FiniteSets, TLC

VARIABLES
    variant,          \* "mysql" (python_to_mysql.py) or "sqlserver" (python_to_sql.py)
    df,               \* the DataFrame: sequence of columns [name, dtype, vals]
    column_dat_type,  \* the caller's override mapping, or PyNone
    col_names,        \* sanitized column names
    col_dat_type,     \* the dict built by the inference loop (insertion ordered)
    ddl_columns,      \* col_dat_type after the ", ".join (the column list text)
    col,              \* index of the column the inference loop is at
    pc,               \* position in to_sql
    error,            \* the exception that ended the call, "none" otherwise
    conn,             \* "none", "open" or "closed"
    cursor,           \* "none", "open" or "closed"
    executed,         \* statements the cursor executed successfully, in order
    attempts,         \* number of cursor.execute calls per statement kind
    pending,          \* effects of executed statements not yet committed
    committed,        \* effects made durable in the database
    rollbacks,        \* number of rollback() calls on the connection
    row,              \* index of the next row of df.iterrows()
    \* last_sunday
    date_column,      \* temp_df[date_column_name]
    sunday_column,    \* temp_df[sunday_date_column_name], <<>> while not set
    ls_pc,            \* position in last_sunday
    \* model_results
    export_path,      \* PyNone or the path of the spreadsheet
    workbook,         \* the file at the path: absent, unreadable or a sheet of rows
    prev_workbook,    \* the file as the last call found it
    iteration,        \* the iteration number the last call reported
    calls,            \* calls of model_results that returned so far
    outcome           \* how the last call ended: "idle", "returned", "raised"

exportVars == <<variant, df, column_dat_type, col_names, col_dat_type, ddl_columns,
                col, pc, error, conn, cursor, executed, attempts, pending,
                committed, rollbacks, row>>

dateVars == <<date_column, sunday_column, ls_pc>>

resultVars == <<export_path, workbook, prev_workbook, iteration, calls, outcome>>

vars == <<exportVars, dateVars, resultVars>>

----------------------------------------------------------------------------
(* Bounds of the explored inputs *)

MaxCols == 2
MaxRows == 2

----------------------------------------------------------------------------
(* Python values *)

PyNone == [t |-> "None"]
PyStr(s) == [t |-> "str", s |-> s]
PyList(items) == [t |-> "list", items |-> items]
PyInt(neg, mag) == [t |-> "int", neg |-> neg, mag |-> mag]
PyFloat(neg, ip, fp) == [t |-> "float", nan |-> FALSE, neg |-> neg, ip |-> ip, fp |-> fp]
NaN == [t |-> "float", nan |-> TRUE, neg |-> FALSE, ip |-> <<>>, fp |-> <<>>]

IsNaN(v) == v.t = "float" /\ v.nan

Max2(a, b) == IF a >= b THEN a ELSE b

RECURSIVE MaxOf(_)
MaxOf(s) == IF Len(s) = 1 THEN s[1] ELSE Max2(s[1], MaxOf(Tail(s)))

DigitChars == <<"0", "1", "2", "3", "4", "5", "6", "7", "8", "9">>

DigitsStr(mag) == [i \in 1..Len(mag) |-> DigitChars[mag[i] + 1]]

RECURSIVE NatDigits(_)
NatDigits(n) == IF n < 10 THEN <<n>> ELSE Append(NatDigits(n \div 10), n % 10)

\* str(n) of a small non-negative Python int (a length)
StrNat(n) == DigitsStr(NatDigits(n))

\* str(v), as df[col].apply(str) computes it
Str(v) ==
    CASE v.t = "str" -> v.s
      [] v.t = "None" -> <<"N", "o", "n", "e">>
      [] v.t = "int" -> (IF v.neg THEN <<"-">> ELSE <<>>) \o DigitsStr(v.mag)
      [] v.t = "float" ->
            IF v.nan THEN <<"n", "a", "n">>
            ELSE (IF v.neg THEN <<"-">> ELSE <<>>)
                 \o DigitsStr(v.ip) \o <<".">> \o DigitsStr(v.fp)

\* x.replace(".", "_")
Replace(s) == [i \in 1..Len(s) |-> IF s[i] = "." THEN "_" ELSE s[i]]

\* sep.join(items) over a sequence of texts
RECURSIVE JoinSeq(_, _)
JoinSeq(sep, items) ==
    IF Len(items) = 0 THEN <<>>
    ELSE IF Len(items) = 1 THEN items[1]
    ELSE items[1] \o sep \o JoinSeq(sep, Tail(items))

\* the elements Python iterates over: the items of a list, the characters of a str
Iterate(v) ==
    IF v.t = "list" THEN v.items
    ELSE [i \in 1..Len(v.s) |-> <<v.s[i]>>]

\* " ".join(v)
Join(sep, v) == JoinSeq(sep, Iterate(v))

\* s.split(sep): the parts between the occurrences of sep
RECURSIVE SplitBy(_, _)
SplitBy(s, sep) ==
    LET n == Len(sep)
        At(i) == i + n - 1 <= Len(s) /\ SubSeq(s, i, i + n - 1) = sep
    IN IF \A i \in 1..Len(s) : ~At(i) THEN <<s>>
       ELSE LET p == CHOOSE i \in 1..Len(s) : At(i) /\ \A j \in 1..(i - 1) : ~At(j)
            IN <<SubSeq(s, 1, p - 1)>> \o SplitBy(SubSeq(s, p + n, Len(s)), sep)

\* s.split(".")
Split(s) == SplitBy(s, <<".">>)

----------------------------------------------------------------------------
(* Integers of arbitrary size: [neg, mag], mag the decimal digits without
   leading zeros; zero is never negative *)

MagLess(a, b) ==
    \/ Len(a) < Len(b)
    \/ /\ Len(a) = Len(b)
       /\ \E i \in 1..Len(a) :
            /\ a[i] < b[i]
            /\ \A j \in 1..(i - 1) : a[j] = b[j]

IntLE(x, y) ==
    CASE x.neg /\ ~y.neg -> TRUE
      [] ~x.neg /\ y.neg -> FALSE
      [] ~x.neg /\ ~y.neg -> ~MagLess(y.mag, x.mag)
      [] x.neg /\ y.neg -> ~MagLess(x.mag, y.mag)

IntGE(x, y) == IntLE(y, x)
IntLT(x, y) == IntLE(x, y) /\ x # y

Neg(x) == IF x.mag = <<0>> THEN x ELSE PyInt(~x.neg, x.mag)

RECURSIVE StripZeros(_)
StripZeros(mag) ==
    IF Len(mag) > 1 /\ mag[1] = 0 THEN StripZeros(Tail(mag)) ELSE mag

RECURSIVE MagDec(_)
MagDec(mag) ==
    LET n == Len(mag)
    IN IF mag[n] > 0 THEN [mag EXCEPT ![n] = mag[n] - 1]
       ELSE Append(MagDec(SubSeq(mag, 1, n - 1)), 9)

\* x - 1 for a positive x
Minus1(x) == PyInt(FALSE, StripZeros(MagDec(x.mag)))

\* pow(2, n) for the exponents the sources use
Pow2(n) ==
    CASE n = 7 -> PyInt(FALSE, <<1, 2, 8>>)
      [] n = 15 -> PyInt(FALSE, <<3, 2, 7, 6, 8>>)
      [] n = 23 -> PyInt(FALSE, <<8, 3, 8, 8, 6, 0, 8>>)
      [] n = 31 -> PyInt(FALSE, <<2, 1, 4, 7, 4, 8, 3, 6, 4, 8>>)
      [] n = 63 -> PyInt(FALSE, <<9, 2, 2, 3, 3, 7, 2, 0, 3, 6, 8, 5, 4, 7, 7, 5, 8, 0, 8>>)

Zero == PyInt(FALSE, <<0>>)
Int255 == PyInt(FALSE, <<2, 5, 5>>)

\* np.int64 limits: the values of an int64 column
Int64Min == Neg(Pow2(63))
Int64Max == Minus1(Pow2(63))

RECURSIVE NanMin(_)
NanMin(vals) ==
    IF Len(vals) = 1 THEN vals[1]
    ELSE LET m == NanMin(Tail(vals)) IN IF IntLE(vals[1], m) THEN vals[1] ELSE m

RECURSIVE NanMax(_)
NanMax(vals) ==
    IF Len(vals) = 1 THEN vals[1]
    ELSE LET m == NanMax(Tail(vals)) IN IF IntGE(vals[1], m) THEN vals[1] ELSE m

\* abs() of a np.int64: the negation of the minimum wraps around to itself
Abs(x) == IF x = Int64Min THEN x ELSE IF x.neg THEN Neg(x) ELSE x

----------------------------------------------------------------------------
(* Type inference of one column *)

\* max(df[col].apply(str).apply(len))
MaxStrLen(vals) == MaxOf([i \in 1..Len(vals) |-> Len(Str(vals[i]))])

Typed(dat_type, dat_len) == [raised |-> FALSE, dat_type |-> dat_type, dat_len |-> dat_len]
Raised(exc) == [raised |-> TRUE, exc |-> exc]

Paren(s) == <<"(">> \o s \o <<")">>

VARCHAR == <<"V", "A", "R", "C", "H", "A", "R">>
TINYINT == <<"T", "I", "N", "Y", "I", "N", "T">>
SMALLINT == <<"S", "M", "A", "L", "L", "I", "N", "T">>
MEDIUMINT == <<"M", "E", "D", "I", "U", "M", "I", "N", "T">>
INT == <<"I", "N", "T">>
BIGINT == <<"B", "I", "G", "I", "N", "T">>
NUMERIC == <<"N", "U", "M", "E", "R", "I", "C">>
NULL == <<"N", "U", "L", "L">>

\* object dtype, both variants
InferObject(vals) == Typed(VARCHAR, Paren(StrNat(MaxStrLen(vals))))

\* the MySQL ladder with the lower limit of every tier left untested
IntTierMySQL_NoLowerLimit(vals) ==
    LET hi == NanMax(vals)
        Fits(n) == IntLE(hi, Minus1(Pow2(n)))
    IN CASE Fits(7) -> TINYINT
         [] ~Fits(7) /\ Fits(15) -> SMALLINT
         [] ~Fits(15) /\ Fits(23) -> MEDIUMINT
         [] ~Fits(23) /\ Fits(31) -> INT
         [] OTHER -> BIGINT

\* the tier of the MySQL integer ladder
IntTierMySQL(vals) ==
    LET lo == NanMin(vals)
        hi == NanMax(vals)
        Fits(n) == IntGE(lo, Neg(Pow2(n))) /\ IntLE(hi, Minus1(Pow2(n)))
    IN CASE Fits(7) -> TINYINT
         [] ~Fits(7) /\ Fits(15) -> SMALLINT
         [] ~Fits(15) /\ Fits(23) -> MEDIUMINT
         [] ~Fits(23) /\ Fits(31) -> INT
         [] ~Fits(31) /\ Fits(63) -> BIGINT
         [] OTHER -> <<>>

\* int dtype, python_to_mysql.py
InferIntMySQL(vals) ==
    LET tier == IntTierMySQL(vals)
        width == IF NanMin(vals).neg THEN MaxStrLen(vals) - 1 ELSE MaxStrLen(vals)
    IN IF tier = <<>> THEN Raised("UnboundLocalError")
       ELSE Typed(tier, Paren(StrNat(width)))

\* the tier of the SQL Server integer ladder
IntTierSQLServer(vals) ==
    LET lo == NanMin(vals)
        hi == NanMax(vals)
    IN IF IntGE(lo, Zero) /\ IntLE(hi, Int255) THEN TINYINT
       ELSE IF IntLT(Abs(hi), Pow2(15)) THEN SMALLINT
       ELSE IF IntLT(Abs(hi), Pow2(31)) THEN INT
       ELSE BIGINT

\* int dtype, python_to_sql.py
InferIntSQLServer(vals) == Typed(IntTierSQLServer(vals), <<>>)

\* float dtype, python_to_mysql.py: split every str(value) at ".", expand
InferFloatMySQL(vals) ==
    LET splt == [i \in 1..Len(vals) |-> Split(Str(vals[i]))]
        ncols == MaxOf([i \in 1..Len(vals) |-> Len(splt[i])])
        cell(i, k) == IF k <= Len(splt[i]) THEN PyStr(splt[i][k]) ELSE PyNone
        length_num == MaxOf([i \in 1..Len(vals) |-> Len(Str(cell(i, 1)))])
        length_dec == MaxOf([i \in 1..Len(vals) |-> Len(Str(cell(i, 2)))])
    IN IF ncols < 2 THEN Raised("KeyError")
       ELSE Typed(NUMERIC,
                  Paren(StrNat(length_num + length_dec) \o <<",">> \o StrNat(length_dec)))

\* float dtype, python_to_sql.py: the first value whose str() is longest
InferFloatSQLServer(vals) ==
    LET length == [i \in 1..Len(vals) |-> Len(Str(vals[i]))]
        longest == MaxOf(length)
        first == CHOOSE i \in 1..Len(vals) :
                    length[i] = longest /\ \A j \in 1..(i - 1) : length[j] # longest
        max_value == vals[first]
        parts == Split(Str(max_value))
    IN IF Len(parts) < 2 THEN Raised("IndexError")
       ELSE Typed(NUMERIC,
                  Paren(StrNat(Len(Str(max_value))) \o <<",">> \o StrNat(Len(parts[2]))))

\* the inference branches of the loop body, by dtype and variant
InferColumn(v, c) ==
    CASE c.dtype = "object" -> InferObject(c.vals)
      [] c.dtype = "int64" ->
            IF v = "mysql" THEN InferIntMySQL(c.vals) ELSE InferIntSQLServer(c.vals)
      [] c.dtype = "float64" ->
            IF v = "mysql" THEN InferFloatMySQL(c.vals) ELSE InferFloatSQLServer(c.vals)


----------------------------------------------------------------------------
(* dicts: [t, items], items the insertion-ordered sequence of [key, value] *)

PyDict(items) == [t |-> "dict", items |-> items]

DictHas(d, k) == \E i \in 1..Len(d.items) : d.items[i].key = k

DictGet(d, k) == d.items[CHOOSE i \in 1..Len(d.items) : d.items[i].key = k].value

\* {**d, **{k: v}}: an existing key keeps its place and takes the new value
DictSet(d, k, v) ==
    IF DictHas(d, k)
    THEN PyDict([i \in 1..Len(d.items) |->
                    IF d.items[i].key = k THEN [key |-> k, value |-> v] ELSE d.items[i]])
    ELSE PyDict(Append(d.items, [key |-> k, value |-> v]))

----------------------------------------------------------------------------
(* The inputs of a call *)

Variants == {"mysql", "sqlserver"}
Dtypes == {"object", "int64", "float64"}

NamePool == << <<"a", ".", "b">>, <<"a", "_", "b">>, <<"a", "g", "e">> >>

RECURSIVE Ascending(_)
Ascending(S) ==
    IF S = {} THEN <<>>
    ELSE LET m == CHOOSE x \in S : \A y \in S : x <= y
         IN <<m>> \o Ascending(S \ {m})

\* the column names of a DataFrame: names of the pool, in pool order
Headers ==
    { [i \in 1..Cardinality(S) |-> NamePool[Ascending(S)[i]]] :
        S \in { T \in SUBSET (1..Len(NamePool)) : T # {} /\ Cardinality(T) <= MaxCols } }

IntOf(n) == IF n < 0 THEN PyInt(TRUE, NatDigits(0 - n)) ELSE PyInt(FALSE, NatDigits(n))

RECURSIVE MagInc(_)
MagInc(mag) ==
    LET n == Len(mag)
    IN IF n = 0 THEN <<1>>
       ELSE IF mag[n] < 9 THEN [mag EXCEPT ![n] = mag[n] + 1]
       ELSE Append(MagInc(SubSeq(mag, 1, n - 1)), 0)

\* x + 1 for a non-negative x
Plus1(x) == PyInt(FALSE, MagInc(x.mag))

\* the cell values of the DataFrames with several columns
SmallValues(d) ==
    CASE d = "object" -> {PyStr(<<"a", "b">>), PyNone}
      [] d = "int64" -> {IntOf(5), IntOf(-40000)}
      [] d = "float64" -> {PyFloat(FALSE, <<1>>, <<5>>), NaN}

\* the cell values of the one-column DataFrames: the edges of every tier,
\* floats of different integer and fractional lengths, nulls among text
EdgeValues(d) ==
    CASE d = "object" ->
            {PyStr(<<>>), PyStr(<<"a">>), PyStr(<<"A", "n", "n", "i", "e">>), PyNone, NaN}
      [] d = "int64" ->
            UNION { {Neg(Pow2(n)), Neg(Plus1(Pow2(n))), Minus1(Pow2(n)), Pow2(n)} :
                        n \in {7, 15, 23, 31} }
            \cup {Int64Min, Int64Max, Zero, Int255, IntOf(256), IntOf(-1)}
      [] d = "float64" ->
            {PyFloat(FALSE, <<1>>, <<5>>), PyFloat(FALSE, <<1, 0, 0>>, <<5>>),
             PyFloat(FALSE, <<1>>, <<2, 5>>), PyFloat(TRUE, <<2>>, <<1, 2, 5>>), NaN}

CellValues(kind, d) == IF kind = "small" THEN SmallValues(d) ELSE EdgeValues(d)

ColumnsOf(kind, r) ==
    UNION { { [dtype |-> d, vals |-> v] : v \in [1..r -> CellValues(kind, d)] } : d \in Dtypes }

Frame(h, c) == [i \in 1..Len(h) |-> [name |-> h[i], dtype |-> c[i].dtype, vals |-> c[i].vals]]

SmallFrames ==
    UNION { UNION { { Frame(h, c) : c \in [1..Len(h) -> ColumnsOf("small", r)] } :
                        r \in 1..MaxRows } : h \in Headers }

EdgeFrames ==
    UNION { { Frame(<<NamePool[3]>>, <<c>>) : c \in ColumnsOf("edge", r) } :
                r \in 1..MaxRows }

\* the override mappings a caller passes
Overrides ==
    { PyNone,
      PyDict(<< [key |-> NamePool[3], value |-> PyStr(INT)] >>),
      PyDict(<< [key |-> NamePool[3], value |-> PyList(<<INT, NULL>>)] >>),
      PyDict(<< [key |-> NamePool[2], value |-> PyList(<<INT, NULL>>)] >>) }

NRows == Len(df[1].vals)
NCols == Len(df)

NoEffects == [table |-> FALSE, rows |-> <<>>]

\* last_sunday and model_results are not called
DatesIdle == date_column = <<>> /\ sunday_column = <<>> /\ ls_pc = "idle"

ResultsIdle ==
    /\ export_path = PyNone
    /\ workbook = [kind |-> "absent", rows |-> <<>>]
    /\ prev_workbook = [kind |-> "absent", rows |-> <<>>]
    /\ iteration = 0
    /\ calls = 0
    /\ outcome = "idle"

Init ==
    /\ variant \in Variants
    /\ \/ df \in SmallFrames /\ column_dat_type \in Overrides
       \/ df \in EdgeFrames /\ column_dat_type = PyNone
    /\ col_names = <<>>
    /\ col_dat_type = PyDict(<<>>)
    /\ ddl_columns = <<>>
    /\ col = 0
    /\ pc = "sanitize"
    /\ error = "none"
    /\ conn = "none"
    /\ cursor = "none"
    /\ executed = <<>>
    /\ attempts = [create |-> 0, insert |-> 0]
    /\ pending = NoEffects
    /\ committed = NoEffects
    /\ rollbacks = 0
    /\ row = 0
    /\ DatesIdle
    /\ ResultsIdle


----------------------------------------------------------------------------
(* to_sql, step by step *)

Raise(exc) ==
    /\ pc' = "raised"
    /\ error' = exc

\* col_names = [x.replace(".", "_") for x in df.columns]; df.columns = col_names
Sanitize ==
    /\ pc = "sanitize"
    /\ col_names' = [i \in 1..NCols |-> Replace(df[i].name)]
    /\ df' = [i \in 1..NCols |-> [df[i] EXCEPT !.name = Replace(df[i].name)]]
    /\ col_dat_type' = PyDict(<<>>)
    /\ col' = 1
    /\ pc' = "infer"
    /\ UNCHANGED <<variant, column_dat_type, ddl_columns, error, conn, cursor,
                   executed, attempts, pending, committed, rollbacks, row>>
    /\ UNCHANGED <<dateVars, resultVars>>

\* a label lookup that yields the first column of that name only
Labelled_First(name) ==
    { i \in 1..NCols : df[i].name = name /\ \A j \in 1..(i - 1) : df[j].name # name }

\* the columns of df that carry the label name (df.dtypes[name], df[name])
Labelled(name) == { i \in 1..NCols : df[i].name = name }

\* one pass of "for col in col_names"
InferStep ==
    /\ pc = "infer"
    /\ col <= Len(col_names)
    /\ LET name == col_names[col]
       IN IF column_dat_type # PyNone /\ DictHas(column_dat_type, name)
          THEN \* the override is stored as the caller passed it; continue
               /\ col_dat_type' = DictSet(col_dat_type, name, DictGet(column_dat_type, name))
               /\ col' = col + 1
               /\ UNCHANGED <<pc, error>>
          ELSE IF Cardinality(Labelled(name)) > 1
          THEN \* df.dtypes[name] is a Series: its truth value is ambiguous
               /\ Raise("ValueError")
               /\ UNCHANGED <<col_dat_type, col>>
          ELSE LET c == df[CHOOSE i \in Labelled(name) : TRUE]
                   t == InferColumn(variant, c)
               IN IF t.raised
                  THEN /\ Raise(t.exc)
                       /\ UNCHANGED <<col_dat_type, col>>
                  ELSE /\ col_dat_type' =
                            DictSet(col_dat_type, name,
                                    PyList(<<t.dat_type \o t.dat_len, NULL>>))
                       /\ col' = col + 1
                       /\ UNCHANGED <<pc, error>>
    /\ UNCHANGED <<variant, df, column_dat_type, col_names, ddl_columns, conn, cursor,
                   executed, attempts, pending, committed, rollbacks, row>>
    /\ UNCHANGED <<dateVars, resultVars>>

\* i + " " + " ".join(col_dat_type[i])
Clause(entry) == entry.key \o <<" ">> \o Join(<<" ">>, entry.value)

\* ", ".join([... for i in col_dat_type.keys()])
ColumnList(d) == JoinSeq(<<",", " ">>, [i \in 1..Len(d.items) |-> Clause(d.items[i])])

BuildColumnList ==
    /\ pc = "infer"
    /\ col > Len(col_names)
    /\ ddl_columns' = ColumnList(col_dat_type)
    /\ pc' = "connect"
    /\ UNCHANGED <<variant, df, column_dat_type, col_names, col_dat_type, col, error,
                   conn, cursor, executed, attempts, pending, committed, rollbacks, row>>
    /\ UNCHANGED <<dateVars, resultVars>>

\* mysql.connector.connect(...) / pyodbc.connect(...), then .cursor()
Connect ==
    /\ pc = "connect"
    /\ \/ /\ conn' = "open"
          /\ cursor' = "open"
          /\ pc' = "create"
          /\ UNCHANGED error
       \/ /\ Raise("ConnectionError")
          /\ UNCHANGED <<conn, cursor>>
    /\ UNCHANGED <<variant, df, column_dat_type, col_names, col_dat_type, ddl_columns,
                   col, executed, attempts, pending, committed, rollbacks, row>>
    /\ UNCHANGED <<dateVars, resultVars>>

\* CREATE TABLE with its error caught and the export carried on
CreateTable_ErrorSwallowed ==
    /\ pc = "create"
    /\ attempts' = [attempts EXCEPT !.create = @ + 1]
    /\ \/ /\ executed' = Append(executed, [kind |-> "CREATE TABLE", columns |-> ddl_columns])
          /\ committed' = [committed EXCEPT !.table = TRUE]
       \/ UNCHANGED <<executed, committed>>
    /\ row' = 1
    /\ pc' = "insert"
    /\ UNCHANGED <<variant, df, column_dat_type, col_names, col_dat_type, ddl_columns,
                   col, error, conn, cursor, pending, rollbacks>>
    /\ UNCHANGED <<dateVars, resultVars>>

\* cursor.execute("CREATE TABLE ..."); python_to_sql.py commits right after it,
\* and a MySQL server commits a DDL statement by itself
CreateTable ==
    /\ pc = "create"
    /\ attempts' = [attempts EXCEPT !.create = @ + 1]
    /\ \/ /\ executed' = Append(executed, [kind |-> "CREATE TABLE", columns |-> ddl_columns])
          /\ committed' = [committed EXCEPT !.table = TRUE]
          /\ row' = 1
          /\ pc' = "insert"
          /\ UNCHANGED error
       \/ /\ Raise("DatabaseError")
          /\ UNCHANGED <<executed, committed, row>>
    /\ UNCHANGED <<variant, df, column_dat_type, col_names, col_dat_type, ddl_columns,
                   col, conn, cursor, pending, rollbacks>>
    /\ UNCHANGED <<dateVars, resultVars>>

\* the dtype of the Series df.iterrows() yields for a row
RowDtype ==
    IF \E i \in 1..NCols : df[i].dtype = "object" THEN "object"
    ELSE IF \A i \in 1..NCols : df[i].dtype = "int64" THEN "int64"
    ELSE "float64"

\* float64 of an int64 (exact below 2^53, which the mixed frames stay under)
ToFloat(v) == IF v.t = "int" THEN PyFloat(v.neg, v.mag, <<0>>) ELSE v

\* tuple(row[1].values) of the k-th row of df.iterrows()
RowValues(k) ==
    [i \in 1..NCols |->
        IF RowDtype = "float64" THEN ToFloat(df[i].vals[k]) ELSE df[i].vals[k]]

\* python_to_mysql.py: val = [None if isinstance(t, float) and isnan(t) else t ...]
NullSanitized(values) ==
    [i \in 1..Len(values) |-> IF IsNaN(values[i]) THEN PyNone ELSE values[i]]

\* the parameters handed to cursor.execute for the k-th row
Params(v, k) == IF v = "mysql" THEN NullSanitized(RowValues(k)) ELSE RowValues(k)

\* one pass of "for row in df.iterrows()": one parameterized INSERT
InsertRow ==
    /\ pc = "insert"
    /\ row <= NRows
    /\ attempts' = [attempts EXCEPT !.insert = @ + 1]
    /\ \/ LET val == Params(variant, row)
          IN /\ executed' = Append(executed,
                    [kind |-> "INSERT", columns |-> JoinSeq(<<",", " ">>, col_names),
                     placeholders |-> Len(col_names), params |-> val])
             /\ pending' = [pending EXCEPT !.rows = Append(@, val)]
             /\ row' = row + 1
             /\ UNCHANGED <<pc, error>>
       \/ /\ Raise("DatabaseError")
          /\ UNCHANGED <<executed, pending, row>>
    /\ UNCHANGED <<variant, df, column_dat_type, col_names, col_dat_type, ddl_columns,
                   col, conn, cursor, committed, rollbacks>>
    /\ UNCHANGED <<dateVars, resultVars>>

\* the final commit(); python_to_sql.py then closes the cursor and the connection,
\* python_to_mysql.py returns
Finish ==
    /\ pc = "insert"
    /\ row > NRows
    /\ committed' = [committed EXCEPT !.rows = @ \o pending.rows]
    /\ pending' = NoEffects
    /\ cursor' = IF variant = "sqlserver" THEN "closed" ELSE cursor
    /\ conn' = IF variant = "sqlserver" THEN "closed" ELSE conn
    /\ pc' = "done"
    /\ UNCHANGED <<variant, df, column_dat_type, col_names, col_dat_type, ddl_columns,
                   col, error, executed, attempts, rollbacks, row>>
    /\ UNCHANGED <<dateVars, resultVars>>

Next ==
    \/ Sanitize
    \/ InferStep
    \/ BuildColumnList
    \/ Connect
    \/ CreateTable
    \/ InsertRow
    \/ Finish

Spec == Init /\ [][Next]_vars


----------------------------------------------------------------------------
(* Reading the generated statements back *)

\* the column list has been generated
Built == pc \notin {"sanitize", "infer"} /\ col > Len(col_names)

\* the clauses of the column list of the CREATE TABLE statement
DDLClauses == IF ddl_columns = <<>> THEN <<>> ELSE SplitBy(ddl_columns, <<",", " ">>)

Words(clause) == SplitBy(clause, <<" ">>)

\* the clause that declares the column called name
HasClause(name) == \E i \in 1..Len(DDLClauses) : Words(DDLClauses[i])[1] = name
ClauseOf(name) ==
    DDLClauses[CHOOSE i \in 1..Len(DDLClauses) : Words(DDLClauses[i])[1] = name]

\* the text after "<name> " in the clause of the column
TypeText(name) == SubSeq(ClauseOf(name), Len(name) + 2, Len(ClauseOf(name)))

\* the type name of the column: its type token up to the "("
TypeName(name) == SplitBy(Words(ClauseOf(name))[2], <<"(">>)[1]

Overridden(name) == column_dat_type # PyNone /\ DictHas(column_dat_type, name)

\* the columns whose type was inferred, of one dtype
InferredColumns(d) ==
    { i \in 1..NCols : df[i].dtype = d /\ ~Overridden(df[i].name) }

Inserts == SelectSeq(executed, LAMBDA st : st.kind = "INSERT")
Creates == SelectSeq(executed, LAMBDA st : st.kind = "CREATE TABLE")

----------------------------------------------------------------------------
(* The claims *)

\* C1: when the override mapping holds a column's sanitized name with a type
\* string, the type text of that column in the CREATE TABLE statement is that
\* string itself (with or without the NULL marker after it), and the entry of
\* the column is the override, not an inferred type.
C1_OverrideVerbatim ==
    Built =>
        \A i \in 1..NCols :
            (Overridden(df[i].name) /\ DictGet(column_dat_type, df[i].name).t = "str") =>
                LET ov == DictGet(column_dat_type, df[i].name)
                IN /\ DictGet(col_dat_type, df[i].name) = ov
                   /\ HasClause(df[i].name)
                   /\ TypeText(df[i].name) \in {ov.s, ov.s \o <<" ">> \o NULL}

\* the signed integer tiers of MySQL, ascending: name, least value, greatest value
Ladder ==
    << [name |-> TINYINT, lo |-> PyInt(TRUE, <<1, 2, 8>>), hi |-> PyInt(FALSE, <<1, 2, 7>>)],
       [name |-> SMALLINT, lo |-> PyInt(TRUE, <<3, 2, 7, 6, 8>>),
                           hi |-> PyInt(FALSE, <<3, 2, 7, 6, 7>>)],
       [name |-> MEDIUMINT, lo |-> PyInt(TRUE, <<8, 3, 8, 8, 6, 0, 8>>),
                            hi |-> PyInt(FALSE, <<8, 3, 8, 8, 6, 0, 7>>)],
       [name |-> INT, lo |-> PyInt(TRUE, <<2, 1, 4, 7, 4, 8, 3, 6, 4, 8>>),
                      hi |-> PyInt(FALSE, <<2, 1, 4, 7, 4, 8, 3, 6, 4, 7>>)],
       [name |-> BIGINT,
        lo |-> PyInt(TRUE, <<9, 2, 2, 3, 3, 7, 2, 0, 3, 6, 8, 5, 4, 7, 7, 5, 8, 0, 8>>),
        hi |-> PyInt(FALSE, <<9, 2, 2, 3, 3, 7, 2, 0, 3, 6, 8, 5, 4, 7, 7, 5, 8, 0, 7>>)] >>

Covers(tier, vals) ==
    \A k \in 1..Len(vals) : IntLE(tier.lo, vals[k]) /\ IntLE(vals[k], tier.hi)

\* C2: in the MySQL variant the type name of every inferred integer column is
\* the first tier of the ladder whose range holds every value of the column:
\* that tier covers the column and no tier before it does.
C2_FirstFitTier ==
    (Built /\ variant = "mysql") =>
        \A i \in InferredColumns("int64") :
            LET name == TypeName(df[i].name)
            IN \E t \in 1..Len(Ladder) :
                  /\ Covers(Ladder[t], df[i].vals)
                  /\ \A u \in 1..(t - 1) : ~Covers(Ladder[u], df[i].vals)
                  /\ name = Ladder[t].name

\* a MySQL column holding -128 and 127 was typed TINYINT
C2_Witness ==
    /\ Built /\ variant = "mysql"
    /\ \E i \in InferredColumns("int64") :
          /\ \E k \in 1..NRows : df[i].vals[k] = Ladder[1].lo
          /\ \E k \in 1..NRows : df[i].vals[k] = Ladder[1].hi
          /\ TypeName(df[i].name) = TINYINT

\* the ranges of the SQL Server integer types
RangeSQLServer(name) ==
    CASE name = TINYINT -> [lo |-> Zero, hi |-> PyInt(FALSE, <<2, 5, 5>>)]
      [] name = SMALLINT -> [lo |-> Ladder[2].lo, hi |-> Ladder[2].hi]
      [] name = INT -> [lo |-> Ladder[4].lo, hi |-> Ladder[4].hi]
      [] name = BIGINT -> [lo |-> Ladder[5].lo, hi |-> Ladder[5].hi]

\* C3: in the SQL Server variant the range of the type inferred for an integer
\* column holds every value of the column, its minimum included.
C3_TypeCoversColumn ==
    (Built /\ variant = "sqlserver") =>
        \A i \in InferredColumns("int64") :
            Covers(RangeSQLServer(TypeName(df[i].name)), df[i].vals)

IsNull(v) == v.t = "None" \/ IsNaN(v)

NonNull(vals) == SelectSeq(vals, LAMBDA v : ~IsNull(v))

\* C4: a text column with at least one non-null value is typed VARCHAR(n), n the
\* greatest string length among its non-null values; nulls do not change n.
C4_VarcharWidth ==
    Built =>
        \A i \in InferredColumns("object") :
            NonNull(df[i].vals) # <<>> =>
                TypeText(df[i].name) =
                    VARCHAR \o Paren(StrNat(MaxStrLen(NonNull(df[i].vals)))) \o <<" ">> \o NULL

\* the number of digits after the decimal point of str(v)
FractionDigits(v) ==
    LET parts == SplitBy(Str(v), <<".">>)
    IN IF Len(parts) < 2 THEN 0 ELSE Len(parts[2])

\* the scale s of a NUMERIC(p,s) type token
ScaleText(name) ==
    SplitBy(SplitBy(Words(ClauseOf(name))[2], <<",">>)[2], <<")">>)[1]

\* C5: the scale of the NUMERIC(p, s) inferred for a floating-point column is
\* the greatest number of digits after the decimal point among all its values.
C5_ScaleIsMaxFraction ==
    Built =>
        \A i \in InferredColumns("float64") :
            ScaleText(df[i].name) =
                StrNat(MaxOf([k \in 1..NRows |-> FractionDigits(df[i].vals[k])]))

\* C6: the column list has one clause per dataset column, in dataset order,
\* and every clause reads "<name> <sqlType> NULL".
C6_ClausePerColumn ==
    Built =>
        /\ Len(DDLClauses) = NCols
        /\ \A i \in 1..NCols :
              LET w == Words(DDLClauses[i])
              IN /\ Len(w) = 3
                 /\ w[1] = col_names[i]
                 /\ w[2] # <<>>
                 /\ w[3] = NULL

CreateRaised == attempts.create > Len(Creates)

\* C7: every executed INSERT comes after an executed CREATE TABLE; and when the
\* CREATE TABLE raised, the call has ended with that error, the DDL was tried
\* once and no INSERT was tried.
C7_NoInsertBeforeCreate ==
    /\ \A j \in 1..Len(executed) :
          executed[j].kind = "INSERT" =>
              \E c \in 1..(j - 1) : executed[c].kind = "CREATE TABLE"
    /\ attempts.insert > 0 => Len(Creates) = 1
    /\ CreateRaised =>
          /\ pc = "raised" /\ error = "DatabaseError"
          /\ attempts.create = 1
          /\ attempts.insert = 0
          /\ Len(Inserts) = 0

\* the CREATE TABLE raised and the call ended
C7_Witness ==
    /\ CreateRaised
    /\ pc = "raised"
    /\ conn = "open"

InsertRaised == attempts.insert > Len(Inserts)

\* C8: when an INSERT raised, the error is surfaced, the connection has been
\* rolled back and the database is as it was before the call.
C8_AllOrNothing ==
    InsertRaised =>
        /\ pc = "raised" /\ error = "DatabaseError"
        /\ rollbacks > 0
        /\ committed = NoEffects

\* C9: a call that has ended does not leave the connection it opened open.
C9_ConnectionReleased ==
    pc \in {"done", "raised"} => conn # "open"

\* the parameter p stands for the cell value v
SameNumber(p, v) ==
    IF p.t = v.t THEN p = v
    ELSE p.t = "float" /\ v.t = "int" /\ ~p.nan /\ p.neg = v.neg /\ p.ip = v.mag
         /\ p.fp = <<0>>

AllNull(vals) == \A k \in 1..Len(vals) : IsNull(vals[k])

\* C11: the inference step does not raise on a column whose values are all
\* null (an all-None/NaN text column, an all-NaN floating-point column): the
\* call never ends in the inference loop at such a column.
C11_AllNullColumnTyped ==
    ~ /\ pc = "raised"
      /\ ~Built
      /\ col \in 1..NCols
      /\ Cardinality(Labelled(col_names[col])) = 1
      /\ AllNull(df[col].vals)


\* the column names the CREATE TABLE column list declares
DeclaredNames == [i \in 1..Len(DDLClauses) |-> Words(DDLClauses[i])[1]]

\* the column names an INSERT statement lists
InsertNames(st) == SplitBy(st.columns, <<",", " ">>)

\* two columns carry the same name after sanitization
Collide == \E i, j \in 1..Len(col_names) : i # j /\ col_names[i] = col_names[j]

NamesAgree ==
    LET declared == DeclaredNames
    IN /\ Len(declared) = NCols
       /\ declared = col_names
       /\ \A j \in 1..Len(executed) :
             executed[j].kind = "INSERT" => InsertNames(executed[j]) = declared

----------------------------------------------------------------------------
(* last_sunday (date_manipulations.py) *)

\* to_sql is not called
ExportIdle ==
    /\ variant = "mysql"
    /\ df = <<>>
    /\ column_dat_type = PyNone
    /\ col_names = <<>>
    /\ col_dat_type = PyDict(<<>>)
    /\ ddl_columns = <<>>
    /\ col = 0
    /\ pc = "idle"
    /\ error = "none"
    /\ conn = "none"
    /\ cursor = "none"
    /\ executed = <<>>
    /\ attempts = [create |-> 0, insert |-> 0]
    /\ pending = NoEffects
    /\ committed = NoEffects
    /\ rollbacks = 0
    /\ row = 0

\* the last day of the explored calendar, counted from 1970-01-01 (day 0)
MaxDay == 13

\* a naive Timestamp: the day since 1970-01-01 and the second of that day
Timestamp(day, secs) == [nat |-> FALSE, day |-> day, secs |-> secs]
NaT == [nat |-> TRUE, day |-> 0, secs |-> 0]

\* a cell no date can be read from
Unparseable == [unparseable |-> TRUE]

\* the cells of the date column a caller passes
DateCells ==
    { Timestamp(d, t) : d \in 0..MaxDay, t \in {0, 86399} } \cup {Unparseable}

\* pd.to_datetime(..., errors="coerce") of one cell
ToDatetime(cell) == IF cell = Unparseable THEN NaT ELSE cell

\* Timestamp.weekday(): Monday is 0, Sunday is 6; 1970-01-01 was a Thursday
Weekday(ts) == (ts.day + 3) % 7

\* x - timedelta(days=n)
MinusDays(ts, n) == Timestamp(ts.day - n, ts.secs)

\* the lambda with the weekday itself taken as the distance to Sunday
LastSundayOf_NoPlusOne(ts) ==
    IF Weekday(ts) # 6 THEN MinusDays(ts, Weekday(ts)) ELSE ts

\* the lambda of the apply: the date itself on a Sunday, else weekday()+1 days back
LastSundayOf(ts) ==
    IF Weekday(ts) # 6 THEN MinusDays(ts, Weekday(ts) + 1) ELSE ts

InitDates ==
    /\ ExportIdle
    /\ ResultsIdle
    /\ \E n \in 1..MaxRows : date_column \in [1..n -> DateCells]
    /\ sunday_column = <<>>
    /\ ls_pc = "convert"

\* temp_df[date_column_name] = pd.to_datetime(..., errors="coerce")
ConvertDates ==
    /\ ls_pc = "convert"
    /\ date_column' = [i \in 1..Len(date_column) |-> ToDatetime(date_column[i])]
    /\ ls_pc' = "apply"
    /\ UNCHANGED <<sunday_column, exportVars, resultVars>>

\* temp_df.apply(lambda ..., axis=1); NaT.weekday() is nan and timedelta(days=nan)
\* raises, which ends the call without a result
ApplyLastSunday ==
    /\ ls_pc = "apply"
    /\ IF \E i \in 1..Len(date_column) : date_column[i].nat
       THEN /\ ls_pc' = "raised"
            /\ UNCHANGED sunday_column
       ELSE /\ sunday_column' =
                 [i \in 1..Len(date_column) |-> LastSundayOf(date_column[i])]
            /\ ls_pc' = "returned"
    /\ UNCHANGED <<date_column, exportVars, resultVars>>

NextDates ==
    \/ ConvertDates
    \/ ApplyLastSunday

SpecDates == InitDates /\ [][NextDates]_vars

\* the Sundays of the calendar: 1970-01-04 (day 3) and every seventh day from it
IsSunday(ts) == \E k \in 0..(MaxDay + 7) : ts.day = 3 + 7 * k - 7

----------------------------------------------------------------------------
(* model_results (model_objects.py), called with test_data = None *)

MaxCalls == 3
MaxParams == 2

\* the file at export_path
Absent == [kind |-> "absent", rows |-> <<>>]
Unreadable == [kind |-> "unreadable", rows |-> <<>>]
Sheet(rows) == [kind |-> "sheet", rows |-> rows]

Path == PyStr(<<"r", ".", "x", "l", "s", "x">>)

\* the names a model's parameters can carry (model.params.index)
ParamNames == {"const", "x1", "na"}

\* the parameter lists of the fitted models: at least one name, none twice
Models ==
    UNION { { m \in [1..n -> ParamNames] : \A i, j \in 1..n : i # j => m[i] # m[j] } :
                n \in 1..MaxParams }

\* na_values of the read_excel call
NaValues == {"#NA", "#N/A", "", " ", "na", "NA"}

\* a missing value of a DataFrame
Missing == [na |-> TRUE]
Text(s) == [na |-> FALSE, s |-> s]

\* pd.read_excel: a text cell listed in na_values is read as missing
ReadCell(text) == IF text \in NaValues THEN Missing ELSE Text(text)

\* to_excel: a missing value is written as an empty cell
WriteCell(v) == IF v.na THEN "" ELSE v.s

ReadExcel(rows) ==
    [i \in 1..Len(rows) |->
        [iter |-> rows[i].iter, variable |-> ReadCell(rows[i].variable)]]

ToExcel(table) ==
    [i \in 1..Len(table) |->
        [iter |-> table[i].iter, variable |-> WriteCell(table[i].variable)]]

\* temp['Iteration Number'].max()
MaxIteration(table) == MaxOf([i \in 1..Len(table) |-> table[i].iter])

\* read_excel raises for no path, no file and a file that cannot be read
Readable == export_path # PyNone /\ workbook.kind = "sheet"

\* the try/except at the head of model_results
IterationOf == IF Readable THEN MaxIteration(ReadExcel(workbook.rows)) + 1 ELSE 1

\* the rows of the result table of one model: one per parameter
ResultTable(n, m) == [i \in 1..Len(m) |-> [iter |-> n, variable |-> Text(m[i])]]

InitResults ==
    /\ ExportIdle
    /\ DatesIdle
    /\ export_path \in {PyNone, Path}
    /\ workbook \in {Absent, Unreadable}
    /\ prev_workbook = workbook
    /\ iteration = 0
    /\ calls = 0
    /\ outcome = "idle"

\* one call that runs to its return
ModelResults ==
    /\ calls < MaxCalls
    /\ \E m \in Models :
          LET n == IterationOf
              result_table ==
                  IF export_path # PyNone /\ n > 1
                  THEN ReadExcel(workbook.rows) \o ResultTable(n, m)
                  ELSE ResultTable(n, m)
          IN /\ iteration' = n
             /\ workbook' = IF export_path # PyNone THEN Sheet(ToExcel(result_table))
                            ELSE workbook
    /\ prev_workbook' = workbook
    /\ calls' = calls + 1
    /\ outcome' = "returned"
    /\ UNCHANGED <<export_path, exportVars, dateVars>>

\* one call in which vif or model_accuracies raises: nothing is printed or written
ModelResultsRaises ==
    /\ calls < MaxCalls
    /\ outcome' = "raised"
    /\ UNCHANGED <<export_path, workbook, prev_workbook, iteration, calls,
                   exportVars, dateVars>>

NextResults ==
    \/ ModelResults
    \/ ModelResultsRaises

SpecResults == InitResults /\ [][NextResults]_vars

Iterations(rows) == { rows[i].iter : i \in 1..Len(rows) }

\* the rows the last call added to the sheet
Added == SubSeq(workbook.rows, Len(prev_workbook.rows) + 1, Len(workbook.rows))

\* C13: a call reports iteration 1 when the spreadsheet was absent or
\* unreadable and 1 + the greatest stored iteration otherwise; the sheet it
\* writes is the previous sheet, row for row, followed by the rows of the new
\* iteration; after k calls the sheet holds the iterations 1..k; and without
\* a path every call reports 1 and writes nothing.
C13_IterationsAppended ==
    calls > 0 =>
        IF export_path = PyNone
        THEN iteration = 1 /\ workbook = prev_workbook /\ workbook.kind # "sheet"
        ELSE /\ iteration = IF prev_workbook.kind = "sheet"
                            THEN 1 + MaxOf([i \in 1..Len(prev_workbook.rows) |->
                                               prev_workbook.rows[i].iter])
                            ELSE 1
             /\ workbook.kind = "sheet"
             /\ Len(workbook.rows) > Len(prev_workbook.rows)
             /\ SubSeq(workbook.rows, 1, Len(prev_workbook.rows)) = prev_workbook.rows
             /\ \A i \in 1..Len(Added) : Added[i].iter = iteration
             /\ Iterations(workbook.rows) = 1..calls


\* what holds of the previous rows: they are kept as read_excel reads them
\* (a Variable cell listed in na_values comes back empty), in their order,
\* before the rows of the new iteration.
IterationsKept ==
    (calls > 0 /\ export_path # PyNone) =>
        /\ SubSeq(workbook.rows, 1, Len(prev_workbook.rows))
              = ToExcel(ReadExcel(prev_workbook.rows))
        /\ \A i \in 1..Len(Added) : Added[i].iter = iteration
        /\ Iterations(workbook.rows) = 1..calls


====
